---- MODULE Spec2Model ----
(***************************************************************************)
(* Model of src/src/app.py: the activities API backed by one SQLite file.  *)
(*                                                                         *)
(* The store is the two tables activity and participant.  Every handler    *)
(* opens its own Session; with the pysqlite driver a SELECT runs outside   *)
(* any transaction and sees the last committed state, and a transaction    *)
(* (with the database write lock) begins only at the first INSERT/DELETE   *)
(* and ends at COMMIT.  Each SELECT of a handler is therefore one step of  *)
(* the model, and the INSERT/DELETE with its COMMIT is one step.  Handlers *)
(* of concurrent requests interleave between these steps.                  *)
(*                                                                         *)
(* The catalog is a scaled-down SEED_ACTIVITIES: two activities, with      *)
(* small capacities so that full rosters are reached.                      *)
(***************************************************************************)
EXTENDS Integers, Sequences, FiniteSets, TLC

\* ------------------------------------------------------------------ bounds
\* Total number of handler invocations in one behaviour.
MaxCalls == 4
\* Scaled-down capacities of the two seeded activities.
ChessCap == 3
MathCap == 2

\* The handlers (requests or startups) that can be in flight at once.
Procs == {1, 2}

\* ------------------------------------------------------------- seed data
SEED_ACTIVITIES ==
    << [name |-> "Chess Club", description |-> "chess", schedule |-> "Fri",
        max_participants |-> ChessCap,
        participants |-> <<"michael", "daniel">>],
       [name |-> "Math Club", description |-> "math", schedule |-> "Tue",
        max_participants |-> MathCap,
        participants |-> <<"james", "benjamin">>] >>

\* Inputs of the requests: path parameter activity_name and query parameter email.
ActivityNames == {"Chess Club", "Math Club", "Unknown Club"}
\* benjamin holds the last seeded row, x and y are new students.
Emails == {"benjamin", "x", "y"}

\* ------------------------------------------------------------------ state
VARIABLES
    activities,     \* table activity: sequence of rows in id order
    participants,   \* table participant: sequence of rows in id order
    writer,         \* handler holding the database write lock, 0 if none
    txn,            \* rows inserted by the open (uncommitted) seeding transaction
    serving,        \* some process finished on_startup and serves requests
    pc,             \* position of each handler
    call,           \* the operation a handler runs and its arguments
    activity,       \* local `activity` of signup/unregister
    participant,    \* local `participant` of unregister
    participant_count, \* local `participant_count` of signup, -1 before it is read
    listing,        \* locals `activities` (still to scan) and `result` of get_activities
    response,       \* what the handler returned or raised
    clean,          \* no other handler committed a change since this one began
    concurrent,     \* the handlers whose current or last run overlapped this one's
    calls,          \* number of handler invocations so far
    trip            \* a signup run alone, and the unregister that follows it

vars == <<activities, participants, writer, txn, serving, pc, call, activity,
          participant, participant_count, listing, response, clean, concurrent,
          calls, trip>>

NoActivity == [id |-> 0, name |-> "", description |-> "", schedule |-> "",
               max_participants |-> 0]
NoParticipant == [id |-> 0, email |-> "", activity_name |-> ""]
NoCall == [op |-> "none", activity_name |-> "", email |-> ""]
NoTxn == [activities |-> <<>>, participants |-> <<>>]
NoListing == [activities |-> <<>>, result |-> <<>>]
NoResponse == [status |-> 0, detail |-> "", body |-> <<>>]
NoTrip == [stage |-> "none", by |-> 0, activity_name |-> "", email |-> "",
           pairs |-> {}]

\* ------------------------------------------------------- tables and queries
RECURSIVE MaxId(_)
MaxId(table) ==
    IF table = <<>> THEN 0
    ELSE LET m == MaxId(Tail(table))
         IN IF Head(table).id > m THEN Head(table).id ELSE m

\* INTEGER PRIMARY KEY without AUTOINCREMENT: the new rowid is the largest
\* rowid of the table plus one.
NextId(table) == MaxId(table) + 1

\* Mutant of SelectActivity: the where clause is missing.
SelectActivityAny(name) ==
    IF activities = <<>> THEN NoActivity ELSE Head(activities)

\* select(Activity).where(Activity.name == name).first()
SelectActivity(name) ==
    LET rows == SelectSeq(activities, LAMBDA a : a.name = name)
    IN IF rows = <<>> THEN NoActivity ELSE Head(rows)

\* select(Participant).where(Participant.activity_name == name).all()
SelectParticipants(name) ==
    SelectSeq(participants, LAMBDA r : r.activity_name = name)

\* Mutant of SelectParticipant: the activity_name condition is dropped.
SelectParticipantAnyActivity(name, email) ==
    LET rows == SelectSeq(participants, LAMBDA r : r.email = email)
    IN IF rows = <<>> THEN NoParticipant ELSE Head(rows)

\* select(Participant).where(activity_name == name, email == email).first()
SelectParticipant(name, email) ==
    LET rows == SelectSeq(participants,
                          LAMBDA r : r.activity_name = name /\ r.email = email)
    IN IF rows = <<>> THEN NoParticipant ELSE Head(rows)

\* [p.email for p in participants]
RECURSIVE EmailsOf(_)
EmailsOf(rows) ==
    IF rows = <<>> THEN <<>> ELSE <<Head(rows).email>> \o EmailsOf(Tail(rows))

Roster(name) == EmailsOf(SelectParticipants(name))

\* The set of (activity_name, email) enrollments of a participant table.
Pairs(table) ==
    {<<table[i].activity_name, table[i].email>> : i \in 1..Len(table)}

\* Mutant of InsertParticipant: the new row comes first in the scan order.
InsertParticipantFirst(table, email, name) ==
    <<[id |-> NextId(table), email |-> email, activity_name |-> name]>> \o table

\* Mutant of InsertParticipant: the two fields are swapped.
InsertParticipantSwapped(table, email, name) ==
    Append(table, [id |-> NextId(table), email |-> name, activity_name |-> email])

\* session.add(Participant(email=email, activity_name=name)); INSERT
InsertParticipant(table, email, name) ==
    Append(table, [id |-> NextId(table), email |-> email, activity_name |-> name])

\* Mutant of DeleteParticipant: DELETE ... WHERE email = :email.
DeleteParticipantByEmail(table, row) ==
    SelectSeq(table, LAMBDA r : r.email # row.email)

\* session.delete(participant): DELETE FROM participant WHERE id = :id.
\* The ORM only warns when no row matches.
DeleteParticipant(table, row) ==
    SelectSeq(table, LAMBDA r : r.id # row.id)

\* Mutant of IsFull: > in place of >=.
IsFullOffByOne(count, act) == count > act.max_participants

\* The capacity test of signup_for_activity.
IsFull(count, act) == count >= act.max_participants

Respond(status, detail) == [status |-> status, detail |-> detail, body |-> <<>>]

\* A commit by p that changed the store is seen by every other handler.
Dirty(p) == [q \in Procs |-> IF q = p THEN clean[q] ELSE FALSE]

\* --------------------------------------------------------------------- Init
Init ==
    /\ activities = <<>>
    /\ participants = <<>>
    /\ writer = 0
    /\ txn = NoTxn
    /\ serving = FALSE
    /\ pc = [p \in Procs |-> "idle"]
    /\ call = [p \in Procs |-> NoCall]
    /\ activity = [p \in Procs |-> NoActivity]
    /\ participant = [p \in Procs |-> NoParticipant]
    /\ participant_count = [p \in Procs |-> -1]
    /\ listing = [p \in Procs |-> NoListing]
    /\ response = [p \in Procs |-> NoResponse]
    /\ clean = [p \in Procs |-> TRUE]
    /\ concurrent = [p \in Procs |-> {}]
    /\ calls = 0
    /\ trip = NoTrip

Free(p) == pc[p] \in {"idle", "done"}

\* Frame of a step of handler p that neither touches the store nor the lock.
StoreUnchanged == UNCHANGED <<activities, participants, writer, txn>>

Enter(p, c, at) ==
    /\ Free(p)
    /\ calls < MaxCalls
    /\ calls' = calls + 1
    /\ call' = [call EXCEPT ![p] = c]
    /\ pc' = [pc EXCEPT ![p] = at]
    /\ activity' = [activity EXCEPT ![p] = NoActivity]
    /\ participant' = [participant EXCEPT ![p] = NoParticipant]
    /\ participant_count' = [participant_count EXCEPT ![p] = -1]
    /\ listing' = [listing EXCEPT ![p] = NoListing]
    /\ response' = [response EXCEPT ![p] = NoResponse]
    /\ clean' = [clean EXCEPT ![p] = TRUE]
    /\ concurrent' = [q \in Procs |->
          IF q = p THEN {r \in Procs \ {p} : ~Free(r)}
          ELSE IF Free(q) THEN concurrent[q] \ {p}
          ELSE concurrent[q] \cup {p}]
    /\ trip' = IF \E q \in Procs \ {p} : ~Free(q) THEN NoTrip
               ELSE IF c.op = "signup"
               THEN [stage |-> "signup", by |-> p,
                     activity_name |-> c.activity_name, email |-> c.email,
                     pairs |-> Pairs(participants)]
               ELSE IF /\ trip.stage = "signed"
                       /\ c.op = "unregister"
                       /\ c.activity_name = trip.activity_name
                       /\ c.email = trip.email
               THEN [trip EXCEPT !.stage = "unregister", !.by = p]
               ELSE NoTrip
    /\ StoreUnchanged

Finish(p, r) ==
    /\ pc' = [pc EXCEPT ![p] = "done"]
    /\ response' = [response EXCEPT ![p] = r]

Goto(p, at) ==
    /\ pc' = [pc EXCEPT ![p] = at]
    /\ UNCHANGED response

\* Mutant of Locked: one lock is held for the whole run of every handler.
LockedByAnyHandler(p) == \E q \in Procs \ {p} : ~Free(q)

\* The write lock is held by another handler: the statement waits, and after
\* the busy timeout raises OperationalError (database is locked).
Locked(p) == writer # 0 /\ writer # p

\* ------------------------------------------------------------- on_startup
\* A process starts: create_db_and_tables() creates the tables when missing
\* and changes no row; seed_database() follows.
BeginStartup(p) ==
    /\ Enter(p, [op |-> "seed", activity_name |-> "", email |-> ""], "seed_check")
    /\ UNCHANGED serving

\* Mutant of SeedCheck: the early return is missing.
SeedCheckNoReturn(p) ==
    /\ pc[p] = "seed_check"
    /\ Goto(p, "seed_add")
    /\ StoreUnchanged
    /\ UNCHANGED <<participant_count, serving, call, activity, participant,
                   listing, clean, concurrent, calls, trip>>

\* existing = session.exec(select(Activity)).first(); if existing: return
SeedCheck(p) ==
    /\ pc[p] = "seed_check"
    /\ IF activities # <<>>
       THEN /\ Finish(p, Respond(200, "Already seeded"))
            /\ serving' = TRUE
       ELSE /\ Goto(p, "seed_add")
            /\ UNCHANGED serving
    /\ StoreUnchanged
    /\ UNCHANGED <<participant_count, call, activity, participant, listing, clean, concurrent, calls, trip>>

\* Mutant of UniqueViolation: the name column is not unique.
NoUniqueViolation(name) == FALSE

\* The name column of activity is unique: an INSERT of a name that a committed
\* row or a row of this transaction carries raises IntegrityError.
UniqueViolation(name) ==
    \/ \E i \in 1..Len(activities) : activities[i].name = name
    \/ \E i \in 1..Len(txn.activities) : txn.activities[i].name = name

\* Mutant of SeedAdd: each activity is committed on its own, before its
\* participants are added.
SeedAddCommitsEach(p) ==
    /\ pc[p] = "seed_add"
    /\ ~Locked(p)
    /\ LET done == {i \in 1..Len(SEED_ACTIVITIES) :
                       \E j \in 1..Len(activities) :
                          activities[j].name = SEED_ACTIVITIES[i].name}
           i == Cardinality(done) + 1
           data == SEED_ACTIVITIES[i]
       IN /\ i <= Len(SEED_ACTIVITIES)
          /\ ~\E j \in 1..Len(activities) : activities[j].name = data.name
          /\ activities' = Append(activities,
                  [id |-> NextId(activities), name |-> data.name,
                   description |-> data.description, schedule |-> data.schedule,
                   max_participants |-> data.max_participants])
          /\ participants' = participants
          /\ IF i = Len(SEED_ACTIVITIES)
             THEN Finish(p, Respond(200, "Seeded"))
             ELSE Goto(p, "seed_add")
    /\ UNCHANGED <<participant_count, writer, txn, serving, call, activity,
                   participant, listing, clean, concurrent, calls, trip>>

\* One turn of the loop over SEED_ACTIVITIES: the activity is added and
\* flushed (its INSERT opens the transaction and takes the write lock), its
\* participants are added to the same transaction.
SeedAdd(p) ==
    /\ pc[p] = "seed_add"
    /\ ~Locked(p)
    /\ LET i == Len(txn.activities) + 1
           data == SEED_ACTIVITIES[i]
       IN IF UniqueViolation(data.name)
          THEN /\ txn' = NoTxn
               /\ writer' = 0
               /\ Finish(p, Respond(500, "IntegrityError"))
          ELSE /\ txn' = [activities |-> Append(txn.activities,
                              [name |-> data.name,
                               description |-> data.description,
                               schedule |-> data.schedule,
                               max_participants |-> data.max_participants]),
                          participants |-> txn.participants \o
                              [k \in 1..Len(data.participants) |->
                                  [email |-> data.participants[k],
                                   activity_name |-> data.name]]]
               /\ writer' = p
               /\ Goto(p, IF i = Len(SEED_ACTIVITIES) THEN "seed_commit"
                          ELSE "seed_add")
    /\ UNCHANGED <<participant_count, activities, participants, serving, call, activity,
                   participant, listing, clean, concurrent, calls, trip>>

\* An exception or a crash inside the with-block of seed_database while its
\* transaction is open: the session closes without commit and the
\* transaction is rolled back.
SeedAbort(p) ==
    /\ pc[p] \in {"seed_add", "seed_commit"}
    /\ writer = p
    /\ txn' = NoTxn
    /\ writer' = 0
    /\ Finish(p, Respond(500, "seeding failed"))
    /\ UNCHANGED <<participant_count, activities, participants, serving, call,
                   activity, participant, listing, clean, concurrent, calls, trip>>

\* The rows of the transaction with the ids the INSERTs gave them.
RECURSIVE WithIds(_, _)
WithIds(table, rows) ==
    IF rows = <<>> THEN table
    ELSE WithIds(Append(table, [id |-> NextId(table)] @@ Head(rows)), Tail(rows))

\* session.commit() of seed_database; on_startup returns and the process serves.
SeedCommit(p) ==
    /\ pc[p] = "seed_commit"
    /\ writer = p
    /\ activities' = WithIds(activities, txn.activities)
    /\ participants' = WithIds(participants, txn.participants)
    /\ txn' = NoTxn
    /\ writer' = 0
    /\ serving' = TRUE
    /\ clean' = Dirty(p)
    /\ Finish(p, Respond(200, "Seeded"))
    /\ UNCHANGED <<participant_count, call, activity, participant, listing, concurrent, calls, trip>>

\* The write lock stayed with another handler past the busy timeout.
SeedLocked(p) ==
    /\ pc[p] = "seed_add"
    /\ Locked(p)
    /\ Finish(p, Respond(500, "database is locked"))
    /\ StoreUnchanged
    /\ UNCHANGED <<participant_count, serving, call, activity, participant, listing, clean, concurrent, calls, trip>>

\* ------------------------------------------------------ signup_for_activity
BeginSignup(p, name, email) ==
    /\ serving
    /\ Enter(p, [op |-> "signup", activity_name |-> name, email |-> email],
             "signup_activity")
    /\ UNCHANGED serving

\* Validate activity exists
SignupActivity(p) ==
    /\ pc[p] = "signup_activity"
    /\ LET a == SelectActivity(call[p].activity_name)
       IN /\ activity' = [activity EXCEPT ![p] = a]
          /\ IF a = NoActivity
             THEN Finish(p, Respond(404, "Activity not found"))
             ELSE Goto(p, "signup_existing")
    /\ StoreUnchanged
    /\ UNCHANGED <<participant_count, serving, call, participant, listing, clean, concurrent, calls, trip>>

\* Validate student is not already signed up
SignupExisting(p) ==
    /\ pc[p] = "signup_existing"
    /\ LET existing == SelectParticipant(call[p].activity_name, call[p].email)
       IN IF existing # NoParticipant
          THEN Finish(p, Respond(400, "Student is already signed up"))
          ELSE Goto(p, "signup_count")
    /\ StoreUnchanged
    /\ UNCHANGED <<participant_count, serving, call, activity, participant, listing, clean, concurrent, calls, trip>>

\* Mutant of SignupCount: the row is added before the capacity test.
SignupCountAddsFirst(p) ==
    /\ pc[p] = "signup_count"
    /\ LET n == Len(SelectParticipants(call[p].activity_name))
       IN /\ participant_count' = [participant_count EXCEPT ![p] = n]
          /\ participants' = InsertParticipant(participants, call[p].email,
                                               call[p].activity_name)
          /\ IF IsFull(n, activity[p])
             THEN Finish(p, Respond(400, "Activity is full"))
             ELSE Finish(p, Respond(200, "Signed up"))
    /\ clean' = Dirty(p)
    /\ UNCHANGED <<activities, writer, txn, serving, call, activity,
                   participant, listing, concurrent, calls, trip>>

\* Validate capacity
SignupCount(p) ==
    /\ pc[p] = "signup_count"
    /\ LET n == Len(SelectParticipants(call[p].activity_name))
       IN /\ participant_count' = [participant_count EXCEPT ![p] = n]
          /\ IF IsFull(n, activity[p])
             THEN Finish(p, Respond(400, "Activity is full"))
             ELSE Goto(p, "signup_add")
    /\ StoreUnchanged
    /\ UNCHANGED <<serving, call, activity, participant, listing, clean, concurrent, calls, trip>>

\* Mutant of SignupAdd: the signup also takes a place off max_participants.
SignupAddTakesPlace(p) ==
    /\ pc[p] = "signup_add"
    /\ ~Locked(p)
    /\ participants' = InsertParticipant(participants, call[p].email,
                                         call[p].activity_name)
    /\ activities' = [i \in 1..Len(activities) |->
          IF activities[i].name = call[p].activity_name
          THEN [activities[i] EXCEPT !.max_participants = @ - 1]
          ELSE activities[i]]
    /\ clean' = Dirty(p)
    /\ Finish(p, Respond(200, "Signed up"))
    /\ UNCHANGED <<participant_count, writer, txn, serving, call, activity,
                   participant, listing, concurrent, calls, trip>>

\* Add student: session.add(...); session.commit().  The INSERT waits while a
\* seeding transaction holds the write lock.
SignupAdd(p) ==
    /\ pc[p] = "signup_add"
    /\ ~Locked(p)
    /\ participants' = InsertParticipant(participants, call[p].email,
                                         call[p].activity_name)
    /\ clean' = Dirty(p)
    /\ trip' = IF trip.stage = "signup" /\ trip.by = p
               THEN [trip EXCEPT !.stage = "signed"] ELSE NoTrip
    /\ Finish(p, Respond(200, "Signed up"))
    /\ UNCHANGED <<participant_count, activities, writer, txn, serving, call, activity,
                   participant, listing, concurrent, calls>>


\* ------------------------------------------------- unregister_from_activity
BeginUnregister(p, name, email) ==
    /\ serving
    /\ Enter(p, [op |-> "unregister", activity_name |-> name, email |-> email],
             "unregister_activity")
    /\ UNCHANGED serving

\* Validate activity exists
UnregisterActivity(p) ==
    /\ pc[p] = "unregister_activity"
    /\ LET a == SelectActivity(call[p].activity_name)
       IN /\ activity' = [activity EXCEPT ![p] = a]
          /\ IF a = NoActivity
             THEN Finish(p, Respond(404, "Activity not found"))
             ELSE Goto(p, "unregister_find")
    /\ StoreUnchanged
    /\ UNCHANGED <<participant_count, serving, call, participant, listing, clean, concurrent, calls, trip>>

\* Find the participant record
UnregisterFind(p) ==
    /\ pc[p] = "unregister_find"
    /\ LET row == SelectParticipant(call[p].activity_name, call[p].email)
       IN /\ participant' = [participant EXCEPT ![p] = row]
          /\ IF row = NoParticipant
             THEN Finish(p, Respond(400, "Student is not signed up for this activity"))
             ELSE Goto(p, "unregister_delete")
    /\ StoreUnchanged
    /\ UNCHANGED <<participant_count, serving, call, activity, listing, clean, concurrent, calls, trip>>

\* Remove student: session.delete(participant); session.commit()
UnregisterDelete(p) ==
    /\ pc[p] = "unregister_delete"
    /\ ~Locked(p)
    /\ participants' = DeleteParticipant(participants, participant[p])
    /\ clean' = IF participants' # participants THEN Dirty(p) ELSE clean
    /\ Finish(p, Respond(200, "Unregistered"))
    /\ UNCHANGED <<participant_count, activities, writer, txn, serving, call, activity,
                   participant, listing, concurrent, calls, trip>>


\* ----------------------------------------------------------- get_activities
\* _activity_to_dict(activity, participants), keyed by the activity's name
ActivityToDict(act, emails) ==
    [name |-> act.name, description |-> act.description,
     schedule |-> act.schedule, max_participants |-> act.max_participants,
     participants |-> emails]

BeginList(p) ==
    /\ serving
    /\ Enter(p, [op |-> "list", activity_name |-> "", email |-> ""],
             "list_activities")
    /\ UNCHANGED serving

\* activities = session.exec(select(Activity)).all(); result = {}
ListActivities(p) ==
    /\ pc[p] = "list_activities"
    /\ listing' = [listing EXCEPT ![p] = [activities |-> activities,
                                          result |-> <<>>]]
    /\ IF activities = <<>>
       THEN Finish(p, [status |-> 200, detail |-> "", body |-> <<>>])
       ELSE Goto(p, "list_scan")
    /\ StoreUnchanged
    /\ UNCHANGED <<participant_count, serving, call, activity, participant, clean, concurrent, calls, trip>>

\* One turn of the loop: the participants of the next activity are selected.
ListScan(p) ==
    /\ pc[p] = "list_scan"
    /\ LET act == Head(listing[p].activities)
           rest == Tail(listing[p].activities)
           result == Append(listing[p].result,
                            ActivityToDict(act, Roster(act.name)))
       IN /\ listing' = [listing EXCEPT ![p] = [activities |-> rest,
                                                result |-> result]]
          /\ IF rest = <<>>
             THEN Finish(p, [status |-> 200, detail |-> "", body |-> result])
             ELSE Goto(p, "list_scan")
    /\ StoreUnchanged
    /\ UNCHANGED <<participant_count, serving, call, activity, participant, clean, concurrent, calls, trip>>

\* --------------------------------------------------------------------- Next
Next ==
    \/ \E p \in Procs : BeginStartup(p)
    \/ \E p \in Procs : SeedCheck(p)
    \/ \E p \in Procs : SeedAdd(p)
    \/ \E p \in Procs : SeedCommit(p)
    \/ \E p \in Procs : SeedLocked(p)
    \/ \E p \in Procs : SeedAbort(p)
    \/ \E p \in Procs, name \in ActivityNames, email \in Emails :
          BeginSignup(p, name, email)
    \/ \E p \in Procs : SignupActivity(p)
    \/ \E p \in Procs : SignupExisting(p)
    \/ \E p \in Procs : SignupCount(p)
    \/ \E p \in Procs : SignupAdd(p)
    \/ \E p \in Procs, name \in ActivityNames, email \in Emails :
          BeginUnregister(p, name, email)
    \/ \E p \in Procs : UnregisterActivity(p)
    \/ \E p \in Procs : UnregisterFind(p)
    \/ \E p \in Procs : UnregisterDelete(p)
    \/ \E p \in Procs : BeginList(p)
    \/ \E p \in Procs : ListActivities(p)
    \/ \E p \in Procs : ListScan(p)

Spec == Init /\ [][Next]_vars

\* ================================================================== claims
Done(p, op) == pc[p] = "done" /\ call[p].op = op
Succeeded(p) == response[p].status = 200

\* C1: capacity invariant - in every reachable state every activity has at
\* most max_participants enrollment rows.
CapacityInvariant ==
    \A i \in 1..Len(activities) :
        Len(SelectParticipants(activities[i].name)) <= activities[i].max_participants

\* C2: last-slot race - two signups for one activity with different emails
\* whose runs overlapped and which both counted exactly one free slot end
\* with exactly one success and one 400 "Activity is full".
SawLastSlot(p) ==
    /\ Done(p, "signup")
    /\ participant_count[p] >= 0
    /\ participant_count[p] = activity[p].max_participants - 1

LastSlotRaceOneWinner ==
    \A p \in Procs, q \in Procs :
        ( /\ p # q
          /\ q \in concurrent[p]
          /\ SawLastSlot(p) /\ SawLastSlot(q)
          /\ call[p].activity_name = call[q].activity_name
          /\ call[p].email # call[q].email )
        => \/ Succeeded(p) /\ response[q] = Respond(400, "Activity is full")
           \/ Succeeded(q) /\ response[p] = Respond(400, "Activity is full")

\* C3: uniqueness invariant - in every reachable state at most one enrollment
\* row exists for any (activity_name, email) pair.
UniquenessInvariant ==
    \A i \in 1..Len(participants), j \in 1..Len(participants) :
        ( /\ participants[i].activity_name = participants[j].activity_name
          /\ participants[i].email = participants[j].email )
        => i = j

\* The roster of an activity in a given participant table.
RosterIn(table, name) ==
    EmailsOf(SelectSeq(table, LAMBDA r : r.activity_name = name))

InSeq(x, seq) == \E i \in 1..Len(seq) : seq[i] = x

\* Handler p takes its last step and returns or raises.
Finishes(p, op) == call[p].op = op /\ pc[p] # "done" /\ pc'[p] = "done"

\* What the specification prescribes for signup on the current store.
SignupExpected(name, email) ==
    IF ~\E i \in 1..Len(activities) : activities[i].name = name
    THEN Respond(404, "Activity not found")
    ELSE IF \E i \in 1..Len(participants) :
                participants[i].activity_name = name /\ participants[i].email = email
    THEN Respond(400, "Student is already signed up")
    ELSE IF \E i \in 1..Len(activities) :
                /\ activities[i].name = name
                /\ Len(RosterIn(participants, name)) >= activities[i].max_participants
    THEN Respond(400, "Activity is full")
    ELSE Respond(200, "Signed up")

\* C4: a signup that runs without interference (no other handler commits a
\* change between its first and its last step) returns the first failing check in
\* the order NotFound, already signed up, full, and succeeds otherwise.
SignupChecksInOrder ==
    [][\A p \in Procs :
          (Finishes(p, "signup") /\ clean[p])
          => response'[p] = SignupExpected(call[p].activity_name, call[p].email)]_vars

\* C4 witness: a roster was filled to exactly max_participants by a signup and
\* the next new email was rejected as full.
SignupChecksInOrderWitness ==
    \E p \in Procs, q \in Procs, i \in 1..Len(activities) :
        /\ p # q
        /\ Done(p, "signup") /\ clean[p]
        /\ response[p] = Respond(400, "Activity is full")
        /\ Done(q, "signup") /\ Succeeded(q)
        /\ call[q].activity_name = call[p].activity_name
        /\ activities[i].name = call[p].activity_name
        /\ Len(Roster(activities[i].name)) = activities[i].max_participants
        /\ ~InSeq(call[p].email, Roster(activities[i].name))

\* C5: the tables change only in a step in which a handler returns
\* successfully; a signup or unregister that fails changes nothing.
FailureChangesNothing ==
    [][(activities' # activities \/ participants' # participants)
          => \E p \in Procs :
                pc[p] # "done" /\ pc'[p] = "done" /\ response'[p].status = 200]_vars

\* C5 witness: both kinds of call have failed, with the tables as seeded.
FailureChangesNothingWitness ==
    \E p \in Procs, q \in Procs :
        /\ Done(p, "signup") /\ response[p].status \in {400, 404}
        /\ Done(q, "unregister") /\ response[q].status \in {400, 404}
        /\ Len(participants) = 4

\* C6: the step in which signup(A, e) succeeds makes A's roster exactly one
\* entry longer, and the roster then contains e.
SignupInsertsOne ==
    [][\A p \in Procs :
          (Finishes(p, "signup") /\ response'[p].status = 200)
          => /\ Len(RosterIn(participants', call[p].activity_name))
                  = Len(RosterIn(participants, call[p].activity_name)) + 1
             /\ InSeq(call[p].email, RosterIn(participants', call[p].activity_name))
             /\ Len(participants') = Len(participants) + 1]_vars

\* C6 witness: scenario 1, a new email joined Chess Club after its two seeds.
SignupInsertsOneWitness ==
    \E p \in Procs :
        /\ Done(p, "signup") /\ Succeeded(p)
        /\ call[p].activity_name = "Chess Club"
        /\ Roster("Chess Club") = <<"michael", "daniel", call[p].email>>

\* C7: the step in which unregister(A, e) succeeds makes A's roster exactly
\* one entry shorter, and the roster then no longer contains e.
UnregisterRemovesStudent ==
    [][\A p \in Procs :
          (Finishes(p, "unregister") /\ response'[p].status = 200)
          => /\ Len(RosterIn(participants', call[p].activity_name))
                  = Len(RosterIn(participants, call[p].activity_name)) - 1
             /\ ~InSeq(call[p].email, RosterIn(participants', call[p].activity_name))]_vars

\* What the specification prescribes for unregister on the current store.
UnregisterExpected(name, email) ==
    IF ~\E i \in 1..Len(activities) : activities[i].name = name
    THEN Respond(404, "Activity not found")
    ELSE IF ~\E i \in 1..Len(participants) :
                participants[i].activity_name = name /\ participants[i].email = email
    THEN Respond(400, "Student is not signed up for this activity")
    ELSE Respond(200, "Unregistered")

\* C8: an unregister that runs without interference fails with 404 when the
\* activity does not exist, otherwise with 400 when the student is not
\* enrolled in it, and succeeds exactly when the student is enrolled in it.
UnregisterChecks ==
    [][\A p \in Procs :
          (Finishes(p, "unregister") /\ clean[p])
          => response'[p] = UnregisterExpected(call[p].activity_name, call[p].email)]_vars

\* C8 witness: a student enrolled in one activity was refused the unregister
\* from another one, in which they are not enrolled.
UnregisterChecksWitness ==
    \E p \in Procs :
        /\ Done(p, "unregister") /\ clean[p]
        /\ response[p] = Respond(400, "Student is not signed up for this activity")
        /\ InSeq(call[p].email, Roster("Chess Club"))
        /\ call[p].activity_name = "Math Club"

\* C9: every participant list that get_activities has returned is at most
\* max_participants long.
ListWithinCapacity ==
    \A p \in Procs :
        Done(p, "list")
        => \A i \in 1..Len(response[p].body) :
              Len(response[p].body[i].participants)
                  <= response[p].body[i].max_participants

\* A step of the startup handler p.
StartupStep(p) ==
    /\ call[p].op = "seed"
    /\ pc[p] \in {"seed_check", "seed_add", "seed_commit"}
    /\ (pc'[p] # pc[p] \/ txn' # txn)

\* C10: a startup on a non-empty catalog is a no-op - no step of it changes a
\* table, and its existence check makes it return at once - so a second
\* initialization leaves the activities and rosters of the first, whatever
\* signups and unregisters happened in between.
SeedIdempotent ==
    [][\A p \in Procs :
          (StartupStep(p) /\ activities # <<>>)
          => /\ activities' = activities
             /\ participants' = participants
             /\ (pc[p] = "seed_check"
                   => pc'[p] = "done" /\ response'[p] = Respond(200, "Already seeded"))]_vars

\* C10 witness: a second startup returned after a signup had changed a roster.
SeedIdempotentWitness ==
    \E p \in Procs, q \in Procs :
        /\ Done(p, "seed") /\ response[p] = Respond(200, "Already seeded")
        /\ clean[p]
        /\ Done(q, "signup") /\ Succeeded(q)
        /\ Len(activities) = Len(SEED_ACTIVITIES)
        /\ Len(participants) = 5

\* How many rows of a table satisfy a test.
Count(table, Test(_)) == Len(SelectSeq(table, Test))

\* Every seed activity is in the table once, every seed participant is
\* enrolled once in its activity.
SeededOnce(acts, parts) ==
    \A i \in 1..Len(SEED_ACTIVITIES) :
        LET data == SEED_ACTIVITIES[i]
        IN /\ Count(acts, LAMBDA a : a.name = data.name) = 1
           /\ \A k \in 1..Len(data.participants) :
                 Count(parts, LAMBDA r : /\ r.activity_name = data.name
                                         /\ r.email = data.participants[k]) = 1

\* C11: concurrent startups do not double-seed - a seeding transaction
\* commits only into an empty store and leaves each seed activity and each
\* seed participant exactly once, and no activity name is ever stored twice.
NoDoubleSeed ==
    [][/\ \A p \in Procs :
            (Finishes(p, "seed") /\ response'[p] = Respond(200, "Seeded"))
            => /\ activities = <<>> /\ participants = <<>>
               /\ SeededOnce(activities', participants')
       /\ \A i \in 1..Len(activities'), j \in 1..Len(activities') :
            activities'[i].name = activities'[j].name => i = j]_vars

\* C11 witness: two startups both read an empty activity table; one seeded,
\* the other ran into the unique name and inserted nothing.
NoDoubleSeedWitness ==
    \E p \in Procs, q \in Procs :
        /\ Done(p, "seed") /\ response[p] = Respond(200, "Seeded")
        /\ Done(q, "seed") /\ response[q] = Respond(500, "IntegrityError")
        /\ q \in concurrent[p]
        /\ SeededOnce(activities, participants)

\* Every seed activity and every seed participant is in the tables.
SeededWhole(acts, parts) ==
    /\ Len(acts) = Len(SEED_ACTIVITIES)
    /\ \A i \in 1..Len(SEED_ACTIVITIES) :
          LET data == SEED_ACTIVITIES[i]
          IN /\ \E j \in 1..Len(acts) : acts[j].name = data.name
             /\ \A k \in 1..Len(data.participants) :
                   InSeq(data.participants[k], RosterIn(parts, data.name))

\* C12: seeding is all-or-nothing - the activity table changes only from
\* empty to the whole seed with all initial participants, in one step, and no
\* participant row is stored while the activity table is empty; a seeding
\* that fails part-way commits nothing.
SeedAllOrNothing ==
    [][/\ activities' # activities
            => /\ activities = <<>>
               /\ SeededWhole(activities', participants')
       /\ activities' = <<>> => participants' = <<>>
       /\ \A p \in Procs :
            (Finishes(p, "seed") /\ response'[p].status = 500)
            => activities' = activities /\ participants' = participants]_vars

\* C12 witness: a seeding failed after its first INSERTs and the store is
\* still empty.
SeedAllOrNothingWitness ==
    \E p \in Procs :
        /\ Done(p, "seed") /\ response[p] = Respond(500, "seeding failed")
        /\ activities = <<>> /\ participants = <<>>
        /\ writer = 0 /\ txn = NoTxn

\* C13: referential integrity - in every reachable state every enrollment
\* row's activity_name is the name of an activity in the activity table.
ReferentialIntegrity ==
    \A i \in 1..Len(participants) :
        \E j \in 1..Len(activities) :
            activities[j].name = participants[i].activity_name

\* C13 witness: a signup for an unknown activity was refused and inserted
\* nothing, next to a signup that did insert a row.
ReferentialIntegrityWitness ==
    \E p \in Procs, q \in Procs :
        /\ Done(p, "signup") /\ call[p].activity_name = "Unknown Club"
        /\ response[p] = Respond(404, "Activity not found")
        /\ Done(q, "signup") /\ Succeeded(q)
        /\ Len(participants) = 5

\* Handler p is inside signup_for_activity or unregister_from_activity.
InRequest(p) ==
    pc[p] \in {"signup_activity", "signup_existing", "signup_count", "signup_add",
               "unregister_activity", "unregister_find", "unregister_delete"}

\* The checks of p have passed and its commit is still to come.
BeforeCommit(p) == pc[p] \in {"signup_add", "unregister_delete"}

\* The next step of the request p runs.
RequestStep(p) ==
    \/ SignupActivity(p) \/ SignupExisting(p) \/ SignupCount(p) \/ SignupAdd(p)
    \/ UnregisterActivity(p) \/ UnregisterFind(p) \/ UnregisterDelete(p)

AddedLast(old, new) ==
    Len(new) = Len(old) + 1 /\ SubSeq(new, 1, Len(old)) = old

\* new is old with one entry taken out, the others in their order.
TakenOut(old, new) ==
    \E i \in 1..Len(old) :
        new = SubSeq(old, 1, i - 1) \o SubSeq(old, i + 1, Len(old))

\* C15: the participant list is in insertion order - a roster only changes
\* by a new enrollment added at its end or by an entry taken out with the
\* others keeping their order, and a get_activities that no commit
\* interleaves with reports each roster in exactly that order.
ListInInsertionOrder ==
    [][/\ \A i \in 1..Len(SEED_ACTIVITIES) :
            LET old == RosterIn(participants, SEED_ACTIVITIES[i].name)
                new == RosterIn(participants', SEED_ACTIVITIES[i].name)
            IN activities # <<>>
               => new = old \/ AddedLast(old, new) \/ TakenOut(old, new)
       /\ \A p \in Procs :
            (Finishes(p, "list") /\ clean[p])
            => \A k \in 1..Len(response'[p].body) :
                  response'[p].body[k].participants
                      = RosterIn(participants, response'[p].body[k].name)]_vars

\* C15 witness: get_activities reported Chess Club with its two seeded
\* students followed by the student who signed up afterwards.
ListInInsertionOrderWitness ==
    \E p \in Procs, q \in Procs :
        /\ Done(p, "list") /\ clean[p]
        /\ Done(q, "signup") /\ Succeeded(q)
        /\ call[q].activity_name = "Chess Club"
        /\ Len(response[p].body) = Len(SEED_ACTIVITIES)
        /\ response[p].body[1].participants
              = <<"michael", "daniel", call[q].email>>

\* The activity table holds exactly the seed activities, field by field.
CatalogAsSeeded(acts) ==
    /\ Len(acts) = Len(SEED_ACTIVITIES)
    /\ \A i \in 1..Len(SEED_ACTIVITIES) :
          /\ acts[i].name = SEED_ACTIVITIES[i].name
          /\ acts[i].description = SEED_ACTIVITIES[i].description
          /\ acts[i].schedule = SEED_ACTIVITIES[i].schedule
          /\ acts[i].max_participants = SEED_ACTIVITIES[i].max_participants

\* C16: after seeding the catalog is immutable - once a process serves
\* requests, no step of any handler adds, removes or changes an activity, and
\* the catalog stays the seeded one.
CatalogImmutable ==
    [][serving => (activities' = activities /\ CatalogAsSeeded(activities'))]_vars

\* C16 witness: a signup and an unregister have both succeeded and changed
\* rosters; the catalog is the seeded one.
CatalogImmutableWitness ==
    \E p \in Procs, q \in Procs :
        /\ Done(p, "signup") /\ Succeeded(p)
        /\ Done(q, "unregister") /\ Succeeded(q)
        /\ CatalogAsSeeded(activities)

\* C17: two concurrent unregister requests for the same existing enrollment
\* row never both report success.
ConcurrentUnregisterOneWinner ==
    \A p \in Procs, q \in Procs :
        ( /\ p # q
          /\ Done(p, "unregister") /\ Done(q, "unregister")
          /\ q \in concurrent[p]
          /\ call[p].activity_name = call[q].activity_name
          /\ call[p].email = call[q].email
          /\ participant[p] # NoParticipant
          /\ participant[p] = participant[q] )
        => ~(Succeeded(p) /\ Succeeded(q))

\* The rows of a table other than those of (name, email).
OtherRows(table, name, email) ==
    SelectSeq(table, LAMBDA r : ~(r.activity_name = name /\ r.email = email))

\* C18: a signup(A, e) or unregister(A, e) changes only enrollment rows of
\* activity A with email e; every other row is left as it was by each of its
\* steps.
RequestTouchesOnlyItsRows ==
    [][\A p \in Procs :
          ( /\ InRequest(p)
            /\ pc'[p] # pc[p] )
          => OtherRows(participants', call[p].activity_name, call[p].email)
                = OtherRows(participants, call[p].activity_name, call[p].email)]_vars

\* C19: round trip - when signup(A, e) runs alone and succeeds and
\* unregister(A, e) runs next with no other request in between, the
\* unregister succeeds and the set of (activity, email) enrollments is again
\* what it was before the signup.
SignupUnregisterRoundTrip ==
    [][\A p \in Procs :
          ( /\ Finishes(p, "unregister")
            /\ trip.stage = "unregister" /\ trip.by = p )
          => /\ response'[p] = Respond(200, "Unregistered")
             /\ Pairs(participants') = trip.pairs]_vars

\* C19 witness: such a round trip has ended; the student is not enrolled in
\* the activity and the enrollments are those recorded before the signup.
SignupUnregisterRoundTripWitness ==
    \E p \in Procs :
        /\ Done(p, "unregister") /\ Succeeded(p)
        /\ trip.stage = "unregister" /\ trip.by = p
        /\ call[p].activity_name = trip.activity_name
        /\ call[p].email = trip.email
        /\ Pairs(participants) = trip.pairs
        /\ ~InSeq(call[p].email, Roster(call[p].activity_name))

====
